---------------------------- MODULE Spec2Model ----------------------------
(***************************************************************************)
(* Task Management Analytics API (src/analytics-service/main.py).         *)
(*                                                                         *)
(* Two read-only HTTP handlers over a document store:                      *)
(*   get_user_statistics(user_id)          lines 51-125                    *)
(*   get_productivity_analysis(user_id, days)   lines 127-196              *)
(* A request walks through the statements of its handler: identifier       *)
(* validation, (productivity only) the window computation, the fetch, the  *)
(* reduction, and the response.  The store, the clock and the startup of   *)
(* the database handle are the environment.                                *)
(*                                                                         *)
(* Scale model of time: datetime values are the integers 0..MaxTime        *)
(* (datetime.min..datetime.max), a calendar day is TicksPerDay ticks.      *)
(* Percentages and averages are kept in hundredths (33.33 is 3333).        *)
(***************************************************************************)
EXTENDS Integers, Sequences, FiniteSets, TLC

\* ---------------------------------------------------------------- bounds
\* Longest record list the store returns to the statistics query.
MaxStatTasks == 3
\* Longest record list the store holds for the productivity query, when the
\* records differ in status and creation time / in status and due time.
MaxTrendTasks == 3
MaxDueTasks == 2
\* How far before the first clock reading records were created.
Lookback == 3
\* Ticks in one calendar day.
TicksPerDay == 2
\* Longest window (in days) whose start is still a representable datetime
\* at the first clock reading.
MaxDays == 3
\* How many ticks the clock may advance while requests are served.
ClockTicks == 1
\* Calendar day number of tick 0 (days are formatted with two digits).
EpochDay == 8
\* Length of the hexadecimal form of a store identifier (bson ObjectId).
OidLen == 24

\* First reading of datetime.now(), and the largest datetime value.
ClockStart == MaxDays * TicksPerDay
ClockEnd == ClockStart + ClockTicks
MaxTime == ClockEnd + TicksPerDay
Time == 0..MaxTime

\* A field the record does not have (dict.get gives None), and a field
\* holding a non-empty string instead of a datetime.
Missing == 0 - 1
BadShape == 0 - 2
NoDate == 0 - 3

\* ------------------------------------------------------------ identifiers
HexChars ==
    {"0", "1", "2", "3", "4", "5", "6", "7", "8", "9",
     "a", "b", "c", "d", "e", "f", "A", "B", "C", "D", "E", "F"}

Repeat(c, n) == [i \in 1..n |-> c]

\* The user_id path parameters tried: one accepted by ObjectId, and
\* malformed ones (wrong characters, too short, too long, one bad digit).
SampleIds ==
    { [i \in 1..OidLen |-> IF i % 2 = 0 THEN "5" ELSE "F"],
      <<"n", "o", "t", "-", "a", "n", "-", "i", "d">>,
      Repeat("a", OidLen - 1),
      Repeat("a", OidLen + 1),
      [i \in 1..OidLen |-> IF i = OidLen THEN "g" ELSE "a"] }

\* ObjectId(id_str) on a str: 24 hexadecimal characters, InvalidId otherwise.
ObjectIdAccepts(id_str) ==
    /\ Len(id_str) = OidLen
    /\ \A i \in 1..Len(id_str) : id_str[i] \in HexChars

\* A validator that only rejects the empty string.
validate_object_id_nonEmpty(id_str) == Len(id_str) > 0

\* validate_object_id: TRUE when it returns the ObjectId, FALSE when it
\* raises HTTPException(400).
validate_object_id(id_str) == ObjectIdAccepts(id_str)

\* ----------------------------------------------------------------- records
Statuses == {"Todo", "In Progress", "Completed"}
Priorities == {"Low", "Medium", "High"}
\* task.get('status') of a record without the field, and a label outside
\* the fixed set.
NoValue == "None"
OtherStatus == "Archived"
OtherPriority == "Urgent"

Task(s, p, c, d) == [status |-> s, priority |-> p, createdAt |-> c, dueDate |-> d]

SeqsUpTo(S, n) == UNION { [1..k -> S] : k \in 0..n }

\* What the statistics query may return: the handler reads status and
\* priority only.
StatRecords ==
    { Task(s, p, ClockStart, Missing) :
        s \in Statuses \cup {NoValue, OtherStatus},
        p \in Priorities \cup {NoValue, OtherPriority} }
StatCollections == SeqsUpTo(StatRecords, MaxStatTasks)

\* What the store may hold for the productivity query.  The trend and the
\* score read status and createdAt, the overdue count reads status and
\* dueDate: one family of record lists varies the former, one the latter.
ProdStatuses == {"Completed", "Todo"}
CreatedValues == (ClockStart - Lookback)..ClockEnd
DueValues == {Missing, BadShape} \cup (ClockStart - 1)..ClockEnd
TrendRecords ==
    { Task(s, "Low", c, Missing) : s \in ProdStatuses, c \in CreatedValues }
DueRecords ==
    { Task(s, "Low", c, d) :
        s \in ProdStatuses, c \in {ClockStart - 1, ClockStart}, d \in DueValues }
ProdCollections ==
    SeqsUpTo(TrendRecords, MaxTrendTasks) \cup SeqsUpTo(DueRecords, MaxDueTasks)

\* The days query parameters tried: negative, zero, positive, and windows
\* that start before datetime.min or after datetime.max.
DaysValues == (0 - 2)..(MaxDays + 1)

\* ------------------------------------------------------------ arithmetic
\* Python 3's round of num / den to an integer, for num >= 0, den > 0:
\* round half to even.  (The float computations of lines 108, 166, 167 and
\* 190 agree with the exact quotient rounded this way for every divisor
\* below 40.)
RoundHalfEven(num, den) ==
    LET q == num \div den
        r == num % den
    IN  IF 2 * r < den THEN q
        ELSE IF 2 * r > den THEN q + 1
        ELSE IF q % 2 = 0 THEN q ELSE q + 1

\* round(num / den * 100, 2), in hundredths.
Percent(num, den) == RoundHalfEven(num * 10000, den)

\* sum(1 for task in ts if task.get('status') == s)
RECURSIVE CountStatus(_, _)
CountStatus(s, ts) ==
    IF ts = <<>> THEN 0
    ELSE (IF Head(ts).status = s THEN 1 ELSE 0) + CountStatus(s, Tail(ts))

\* task.get('priority', 'Medium'): a record without priority counted as Medium.
RECURSIVE CountPriority_defaultMedium(_, _)
CountPriority_defaultMedium(p, ts) ==
    IF ts = <<>> THEN 0
    ELSE (IF \/ Head(ts).priority = p
             \/ p = "Medium" /\ Head(ts).priority = NoValue
          THEN 1 ELSE 0) + CountPriority_defaultMedium(p, Tail(ts))

\* sum(1 for task in ts if task.get('priority') == p)
RECURSIVE CountPriority(_, _)
CountPriority(p, ts) ==
    IF ts = <<>> THEN 0
    ELSE (IF Head(ts).priority = p THEN 1 ELSE 0) + CountPriority(p, Tail(ts))

\* ------------------------------------------------------------- responses
NoBody == [success |-> FALSE]
NoResponse == [code |-> 0, detail |-> <<>>, body |-> NoBody]
Ok(body) == [code |-> 200, detail |-> <<>>, body |-> body]
\* validate_object_id's HTTPException, re-raised by `except HTTPException`.
BadRequest == [code |-> 400, detail |-> <<"Invalid user ID format">>, body |-> NoBody]
\* A 500 response that drops str(e).
ServerError_noMessage(ep, e) ==
    [code |-> 500, detail |-> <<"Internal Server Error">>, body |-> [success |-> FALSE]]

\* `except Exception as e`: HTTPException(500, prefix + str(e)).
ErrorPrefix(ep) ==
    IF ep = "stats" THEN "Error fetching user statistics: "
    ELSE "Error fetching productivity analysis: "
ServerError(ep, e) == [code |-> 500, detail |-> <<ErrorPrefix(ep), e>>, body |-> NoBody]

\* The exceptions a handler can meet after validation.
NoExc == "none"
NameErrorDb == "name 'db' is not defined"
StoreUnreachable == "ServerSelectionTimeoutError"
OverflowErr == "date value out of range"
TypeErr == "'<' not supported between instances of 'str' and 'datetime.datetime'"
ZeroDivision == "division by zero"

\* ------------------------------------------------------------------ state
VARIABLES
    db,          \* "defined" | "undefined": the module-level handle (lines 29-34)
    clock,       \* the latest reading of datetime.now()
    pc,          \* "idle" | "validate" | "window" | "fetch" | "reduce" | "done"
    endpoint,    \* "none" | "stats" | "prod"
    user_id,     \* the path parameter
    days,        \* the query parameter (productivity)
    end_date,    \* line 141
    start_date,  \* line 142
    tasks,       \* the fetched list
    fetches,     \* how many times the fetch statement ran for this request
    dueNow,      \* the datetime.now() reading of line 173, per fetched record
    exc,         \* the exception caught by `except Exception`, if any
    response     \* the response sent

vars ==
    <<db, clock, pc, endpoint, user_id, days, end_date, start_date, tasks,
      fetches, dueNow, exc, response>>

\* ------------------------------------------------------ statistics reducer
\* An empty-list literal with empty distributions.
EmptyStatistics_noKeys(uid) ==
    [ success |-> TRUE,
      user_id |-> uid,
      total_tasks |-> 0,
      completed_tasks |-> 0,
      pending_tasks |-> 0,
      in_progress_tasks |-> 0,
      completion_rate |-> 0,
      priority_distribution |-> <<>>,
      status_distribution |-> <<>> ]

\* Lines 67-85: the literal returned for an empty list.
EmptyStatistics(uid) ==
    [ success |-> TRUE,
      user_id |-> uid,
      total_tasks |-> 0,
      completed_tasks |-> 0,
      pending_tasks |-> 0,
      in_progress_tasks |-> 0,
      completion_rate |-> 0,
      priority_distribution |-> ("Low" :> 0 @@ "Medium" :> 0 @@ "High" :> 0),
      status_distribution |-> ("Todo" :> 0 @@ "In Progress" :> 0 @@ "Completed" :> 0) ]

\* A completion rate cut to two decimals instead of rounded.
CompletionRate_truncated(completed_tasks, total_tasks) ==
    IF total_tasks > 0 THEN (completed_tasks * 10000) \div total_tasks ELSE 0

\* Line 108.
CompletionRate(completed_tasks, total_tasks) ==
    IF total_tasks > 0 THEN Percent(completed_tasks, total_tasks) ELSE 0

\* Lines 88-120: the tally.
Tally(uid, ts) ==
    LET total_tasks == Len(ts)
        completed_tasks == CountStatus("Completed", ts)
        in_progress_tasks == CountStatus("In Progress", ts)
        pending_tasks == CountStatus("Todo", ts)
        priority_distribution ==
            "Low" :> CountPriority("Low", ts)
            @@ "Medium" :> CountPriority("Medium", ts)
            @@ "High" :> CountPriority("High", ts)
        status_distribution ==
            "Todo" :> pending_tasks
            @@ "In Progress" :> in_progress_tasks
            @@ "Completed" :> completed_tasks
    IN  [ success |-> TRUE,
          user_id |-> uid,
          total_tasks |-> total_tasks,
          completed_tasks |-> completed_tasks,
          pending_tasks |-> pending_tasks,
          in_progress_tasks |-> in_progress_tasks,
          completion_rate |-> CompletionRate(completed_tasks, total_tasks),
          priority_distribution |-> priority_distribution,
          status_distribution |-> status_distribution ]

\* Lines 66-120: `if not tasks` short-circuits to the literal.
Statistics(uid, ts) ==
    IF ts = <<>> THEN EmptyStatistics(uid) ELSE Tally(uid, ts)

\* ---------------------------------------------------- productivity reducer
\* created_date.strftime('%Y-%m-%d'): the calendar day as fixed-width
\* decimal digits.
DateKey(t) ==
    LET d == EpochDay + (t \div TicksPerDay)
    IN  <<d \div 10, d % 10>>

\* Python's < on strings of digits: lexicographic.
RECURSIVE StrLess(_, _)
StrLess(a, b) ==
    IF b = <<>> THEN FALSE
    ELSE IF a = <<>> THEN TRUE
    ELSE IF Head(a) # Head(b) THEN Head(a) < Head(b)
    ELSE StrLess(Tail(a), Tail(b))

IsCompleted(task) == task.status = "Completed"

\* daily_completions[date_key] = 1: the count overwritten, not incremented.
Increment_overwrite(dc, date_key) ==
    IF \E i \in 1..Len(dc) : dc[i].date = date_key
    THEN dc
    ELSE Append(dc, [date |-> date_key, count |-> 1])

\* Line 159: daily_completions[date_key] = daily_completions.get(date_key, 0) + 1,
\* on a dict kept as its items in insertion order.
Increment(dc, date_key) ==
    IF \E i \in 1..Len(dc) : dc[i].date = date_key
    THEN [i \in 1..Len(dc) |->
            IF dc[i].date = date_key
            THEN [date |-> date_key, count |-> dc[i].count + 1]
            ELSE dc[i]]
    ELSE Append(dc, [date |-> date_key, count |-> 1])

\* Lines 154-159, over the first n completed tasks.
RECURSIVE DailyCompletions(_, _)
DailyCompletions(completed_tasks, n) ==
    IF n = 0 THEN <<>>
    ELSE LET dc == DailyCompletions(completed_tasks, n - 1)
             created_date == completed_tasks[n].createdAt
         IN  IF created_date # Missing
             THEN Increment(dc, DateKey(created_date))
             ELSE dc

\* Python's < on (date, count) tuples.
ItemLess(a, b) ==
    \/ StrLess(a.date, b.date)
    \/ a.date = b.date /\ a.count < b.count

RECURSIVE Insert(_, _)
Insert(x, sorted) ==
    IF sorted = <<>> THEN <<x>>
    ELSE IF ItemLess(x, Head(sorted)) THEN <<x>> \o sorted
    ELSE <<Head(sorted)>> \o Insert(x, Tail(sorted))

\* The items in insertion order, unsorted.
Sorted_insertionOrder(items) == items

\* Line 188: sorted(daily_completions.items()).
RECURSIVE Sorted(_)
Sorted(items) ==
    IF items = <<>> THEN <<>> ELSE Insert(Head(items), Sorted(Tail(items)))

\* Python's total / days rounded to two decimals, in hundredths;
\* DivisionByZero when days = 0 (ZeroDivisionError).
DivisionByZero == 0 - 1
Divide2(total, d) ==
    IF d = 0 THEN DivisionByZero ELSE RoundHalfEven(total * 100, d)

\* The guard written days >= 0.
Average_nonNegative(total, d) ==
    IF d >= 0 THEN Divide2(total, d) ELSE 0

\* Lines 166-167.
Average(total, d) == IF d > 0 THEN Divide2(total, d) ELSE 0

\* Line 190.
ProductivityScore(total_completed, total_created) ==
    IF total_created > 0 THEN Percent(total_completed, total_created) ELSE 0

\* Lines 171-173 for one record, with the reading of datetime.now() made
\* for it: counted, not counted, or str < datetime raises TypeError.
DueRaises(task) ==
    /\ task.status # "Completed"
    /\ task.dueDate = BadShape

\* The comparison written <=.
IsOverdue_inclusive(task, now) ==
    /\ task.status # "Completed"
    /\ task.dueDate # Missing
    /\ task.dueDate <= now

IsOverdue(task, now) ==
    /\ task.status # "Completed"
    /\ task.dueDate # Missing
    /\ task.dueDate < now

\* Lines 170-173 over records n..Len(ts).
RECURSIVE Overdue(_, _, _)
Overdue(ts, nows, n) ==
    IF n > Len(ts) THEN 0
    ELSE (IF IsOverdue(ts[n], nows[n]) THEN 1 ELSE 0) + Overdue(ts, nows, n + 1)

\* The readings of datetime.now() during the scan: the clock does not go
\* back.
NowReadings(n, from) ==
    { nows \in [1..n -> from..ClockEnd] :
        \A i \in 1..n : \A j \in 1..n : i <= j => nows[i] <= nows[j] }

\* Lines 150-191: the exception raised (NoExc when none) and the result.
Productivity(uid, d, start, end, ts, nows) ==
    LET completed_tasks == SelectSeq(ts, IsCompleted)
        daily_completions == DailyCompletions(completed_tasks, Len(completed_tasks))
        total_created == Len(ts)
        total_completed == Len(completed_tasks)
        avg_tasks_per_day == Average(total_created, d)
        avg_completions_per_day == Average(total_completed, d)
        raised ==
            IF avg_tasks_per_day = DivisionByZero
               \/ avg_completions_per_day = DivisionByZero
            THEN ZeroDivision
            ELSE IF \E i \in 1..Len(ts) : DueRaises(ts[i])
            THEN TypeErr
            ELSE NoExc
    IN  [ exc |-> raised,
          body |->
            IF raised # NoExc THEN NoBody
            ELSE [ success |-> TRUE,
                   user_id |-> uid,
                   period_days |-> d,
                   start_date |-> start,
                   end_date |-> end,
                   total_tasks_created |-> total_created,
                   total_tasks_completed |-> total_completed,
                   overdue_tasks |-> Overdue(ts, nows, 1),
                   avg_tasks_per_day |-> avg_tasks_per_day,
                   avg_completions_per_day |-> avg_completions_per_day,
                   daily_completion_trend |-> Sorted(daily_completions),
                   productivity_score |->
                       ProductivityScore(total_completed, total_created) ] ]

\* The store's answer to {"user": ..., "createdAt": {"$gte": start, "$lte": end}}:
\* the records whose createdAt is a date inside the window, in stored order.
InWindow(task, start, end) ==
    /\ task.createdAt # Missing
    /\ task.createdAt # BadShape
    /\ start <= task.createdAt
    /\ task.createdAt <= end

RECURSIVE Find(_, _, _)
Find(coll, start, end) ==
    IF coll = <<>> THEN <<>>
    ELSE (IF InWindow(Head(coll), start, end) THEN <<Head(coll)>> ELSE <<>>)
         \o Find(Tail(coll), start, end)

\* ------------------------------------------------------------------ Init
Init ==
    /\ db \in {"defined", "undefined"}
    /\ clock = ClockStart
    /\ pc = "idle"
    /\ endpoint = "none"
    /\ user_id = <<>>
    /\ days = 0
    /\ end_date = NoDate
    /\ start_date = NoDate
    /\ tasks = <<>>
    /\ fetches = 0
    /\ dueNow = <<>>
    /\ exc = NoExc
    /\ response = NoResponse

\* --------------------------------------------- get_user_statistics, 51-125
\* The framework calls the handler with the path parameter.
StatsRequest(uid) ==
    /\ pc = "idle"
    /\ pc' = "validate"
    /\ endpoint' = "stats"
    /\ user_id' = uid
    /\ UNCHANGED <<db, clock, days, end_date, start_date, tasks, fetches, dueNow,
                   exc, response>>

\* Line 61 (and 122-123 when validation raises).
StatsValidate ==
    /\ pc = "validate"
    /\ endpoint = "stats"
    /\ IF validate_object_id(user_id)
       THEN /\ pc' = "fetch"
            /\ UNCHANGED response
       ELSE /\ pc' = "done"
            /\ response' = BadRequest
    /\ UNCHANGED <<db, clock, endpoint, user_id, days, end_date, start_date, tasks,
                   fetches, dueNow, exc>>

\* A statement after validation raised: `except Exception`, lines 124-125
\* and 195-196.
Raise(e) ==
    /\ pc' = "done"
    /\ exc' = e
    /\ response' = ServerError(endpoint, e)

\* Line 64: list(db.tasks.find({"user": user_object_id})).
StatsFetch ==
    /\ pc = "fetch"
    /\ endpoint = "stats"
    /\ fetches' = fetches + 1
    /\ \/ /\ db = "undefined"
          /\ Raise(NameErrorDb)
          /\ UNCHANGED tasks
       \/ /\ db = "defined"
          /\ Raise(StoreUnreachable)
          /\ UNCHANGED tasks
       \/ /\ db = "defined"
          /\ \E found \in StatCollections : tasks' = found
          /\ pc' = "reduce"
          /\ UNCHANGED <<exc, response>>
    /\ UNCHANGED <<db, clock, endpoint, user_id, days, end_date, start_date, dueNow>>

\* Lines 66-120.
StatsReduce ==
    /\ pc = "reduce"
    /\ endpoint = "stats"
    /\ pc' = "done"
    /\ response' = Ok(Statistics(user_id, tasks))
    /\ UNCHANGED <<db, clock, endpoint, user_id, days, end_date, start_date, tasks,
                   fetches, dueNow, exc>>

\* --------------------------------------- get_productivity_analysis, 127-196
ProdRequest(uid, d) ==
    /\ pc = "idle"
    /\ pc' = "validate"
    /\ endpoint' = "prod"
    /\ user_id' = uid
    /\ days' = d
    /\ UNCHANGED <<db, clock, end_date, start_date, tasks, fetches, dueNow, exc,
                   response>>

\* Line 138 (and 193-194 when validation raises).
ProdValidate ==
    /\ pc = "validate"
    /\ endpoint = "prod"
    /\ IF validate_object_id(user_id)
       THEN /\ pc' = "window"
            /\ UNCHANGED response
       ELSE /\ pc' = "done"
            /\ response' = BadRequest
    /\ UNCHANGED <<db, clock, endpoint, user_id, days, end_date, start_date, tasks,
                   fetches, dueNow, exc>>

\* Date arithmetic without a range check.
Representable_always(t) == TRUE

\* end_date - timedelta(days=days) is a datetime only inside
\* datetime.min..datetime.max; OverflowError otherwise (as for a timedelta
\* that is itself out of range).
Representable(t) == t \in Time

\* Lines 141-142.
ProdWindow ==
    /\ pc = "window"
    /\ endpoint = "prod"
    /\ \E now \in clock..ClockEnd :
          /\ clock' = now
          /\ end_date' = now
          /\ IF Representable(now - days * TicksPerDay)
             THEN /\ start_date' = now - days * TicksPerDay
                  /\ pc' = "fetch"
                  /\ UNCHANGED <<exc, response>>
             ELSE /\ Raise(OverflowErr)
                  /\ UNCHANGED start_date
    /\ UNCHANGED <<db, endpoint, user_id, days, tasks, fetches, dueNow>>

\* Lines 145-148.
ProdFetch ==
    /\ pc = "fetch"
    /\ endpoint = "prod"
    /\ fetches' = fetches + 1
    /\ \/ /\ db = "undefined"
          /\ Raise(NameErrorDb)
          /\ UNCHANGED tasks
       \/ /\ db = "defined"
          /\ Raise(StoreUnreachable)
          /\ UNCHANGED tasks
       \/ /\ db = "defined"
          /\ \E coll \in ProdCollections : tasks' = Find(coll, start_date, end_date)
          /\ pc' = "reduce"
          /\ UNCHANGED <<exc, response>>
    /\ UNCHANGED <<db, clock, endpoint, user_id, days, end_date, start_date, dueNow>>

\* Lines 150-196.
ProdReduce ==
    /\ pc = "reduce"
    /\ endpoint = "prod"
    /\ \E nows \in NowReadings(Len(tasks), clock) :
          LET r == Productivity(user_id, days, start_date, end_date, tasks, nows)
          IN  /\ dueNow' = nows
              /\ clock' = IF nows = <<>> THEN clock ELSE nows[Len(nows)]
              /\ IF r.exc = NoExc
                 THEN /\ pc' = "done"
                      /\ response' = Ok(r.body)
                      /\ UNCHANGED exc
                 ELSE Raise(r.exc)
    /\ UNCHANGED <<db, endpoint, user_id, days, end_date, start_date, tasks, fetches>>

\* The request is over; the handler holds no state across requests.
Finish ==
    /\ pc = "done"
    /\ pc' = "idle"
    /\ endpoint' = "none"
    /\ user_id' = <<>>
    /\ days' = 0
    /\ end_date' = NoDate
    /\ start_date' = NoDate
    /\ tasks' = <<>>
    /\ fetches' = 0
    /\ dueNow' = <<>>
    /\ exc' = NoExc
    /\ response' = NoResponse
    /\ UNCHANGED <<db, clock>>

Next ==
    \/ \E uid \in SampleIds : StatsRequest(uid)
    \/ StatsValidate
    \/ StatsFetch
    \/ StatsReduce
    \/ \E uid \in SampleIds : \E d \in DaysValues : ProdRequest(uid, d)
    \/ ProdValidate
    \/ ProdWindow
    \/ ProdFetch
    \/ ProdReduce
    \/ Finish

Spec == Init /\ [][Next]_vars

\* ----------------------------------------------------------------- claims
Done(ep) == pc = "done" /\ endpoint = ep
Succeeded(ep) == Done(ep) /\ response.code = 200
Abs(x) == IF x < 0 THEN 0 - x ELSE x
IndexSet(ts) == 1..Len(ts)
StoreErrors == {NameErrorDb, StoreUnreachable}

\* C1: on both endpoints a request whose user_id is not a well-formed
\* identifier never gets past validation: no fetch statement runs for it,
\* nothing is fetched, and it ends with the 400 response.
C1_MalformedRejectedBeforeFetch ==
    (endpoint # "none" /\ ~ObjectIdAccepts(user_id)) =>
        /\ pc \in {"validate", "done"}
        /\ fetches = 0
        /\ tasks = <<>>
        /\ exc = NoExc
        /\ pc = "done" => response.code = 400 /\ response.body = NoBody

C1_Witness ==
    /\ Done("prod")
    /\ user_id = <<"n", "o", "t", "-", "a", "n", "-", "i", "d">>
    /\ response.code = 400
    /\ fetches = 0

\* C2 as stated: every productivity request with a well-formed identifier
\* returns a Productivity result, whatever days is and whatever the store
\* does.
C2_Original ==
    (Done("prod") /\ ObjectIdAccepts(user_id)) => response.code = 200

\* The window start of the request is no datetime.
WindowOverflows == end_date - days * TicksPerDay \notin Time
\* A fetched record that is not Completed carries a due value that is no
\* timestamp.
SomeDueMalformed ==
    \E i \in IndexSet(tasks) :
        tasks[i].status # "Completed" /\ tasks[i].dueDate = BadShape

\* C2 amended: a productivity request with a well-formed identifier never
\* ends with 400; it returns a Productivity result (also for zero records)
\* exactly when no later step raises, and the only later steps that raise
\* are the window computation (start not representable), the fetch, and the
\* comparison of a malformed due value; then the response is 500.
C2_FailsOnlyOnRaisedStep ==
    (Done("prod") /\ ObjectIdAccepts(user_id)) =>
        /\ response.code \in {200, 500}
        /\ response.code = 200 <=> exc = NoExc
        /\ exc \in {NoExc, OverflowErr, TypeErr} \cup StoreErrors
        /\ exc = OverflowErr <=> WindowOverflows
        /\ exc = TypeErr <=> (~WindowOverflows /\ SomeDueMalformed)
        /\ exc \in StoreErrors => ~WindowOverflows /\ tasks = <<>>

C2_Witness ==
    /\ Succeeded("prod")
    /\ days > 0
    /\ tasks = <<>>
    /\ response.body.total_tasks_created = 0
    /\ response.body.daily_completion_trend = <<>>

\* C3 as stated: with a well-formed identifier, a failing later step gives
\* the 500 response with the underlying message, no result, and the fetch
\* ran exactly once.
C3_Original ==
    (pc = "done" /\ ObjectIdAccepts(user_id) /\ exc # NoExc) =>
        /\ response = ServerError(endpoint, exc)
        /\ fetches = 1

\* C3 amended: with a well-formed identifier, a failing later step gives
\* the 500 response carrying the underlying message and no result; the
\* fetch statement runs at most once for a request, and exactly once unless
\* the productivity window computation itself raised before the fetch.
C3_ServerErrorNoRetry ==
    /\ fetches <= 1
    /\ (pc = "done" /\ ObjectIdAccepts(user_id) /\ exc # NoExc) =>
          /\ response.code = 500
          /\ response.detail = <<ErrorPrefix(endpoint), exc>>
          /\ response.body = NoBody
          /\ fetches = 0 <=> exc = OverflowErr
          /\ exc = OverflowErr => endpoint = "prod"
    /\ (pc = "done" /\ response.code = 200) => exc = NoExc /\ fetches = 1

C3_Witness ==
    /\ Done("stats")
    /\ exc = StoreUnreachable
    /\ response.code = 500
    /\ fetches = 1

\* C4: in a Statistics result the three status counts add up to at most
\* total_tasks and so do the three priority counts; they add up to exactly
\* the number of records with a recognized status / priority (so to
\* total_tasks when every record has one), and a record list with missing
\* or unrecognized values still gets a result.
C4_StatusSum ==
    response.body.completed_tasks + response.body.pending_tasks
    + response.body.in_progress_tasks
C4_PrioritySum ==
    response.body.priority_distribution["Low"]
    + response.body.priority_distribution["Medium"]
    + response.body.priority_distribution["High"]

C4_CountsWithinTotal ==
    /\ (pc = "done" /\ endpoint = "stats" /\ exc = NoExc /\ fetches = 1) =>
          response.code = 200
    /\ Succeeded("stats") =>
          /\ response.body.total_tasks = Len(tasks)
          /\ C4_StatusSum <= response.body.total_tasks
          /\ C4_PrioritySum <= response.body.total_tasks
          /\ C4_StatusSum =
                Cardinality({i \in IndexSet(tasks) : tasks[i].status \in Statuses})
          /\ C4_PrioritySum =
                Cardinality({i \in IndexSet(tasks) : tasks[i].priority \in Priorities})
          /\ (\A i \in IndexSet(tasks) : tasks[i].status \in Statuses) =>
                C4_StatusSum = response.body.total_tasks
          /\ (\A i \in IndexSet(tasks) : tasks[i].priority \in Priorities) =>
                C4_PrioritySum = response.body.total_tasks

C4_Witness ==
    /\ Succeeded("stats")
    /\ Len(tasks) = 3
    /\ \E i \in IndexSet(tasks) : tasks[i].status = NoValue
    /\ \E i \in IndexSet(tasks) : tasks[i].priority = OtherPriority
    /\ C4_StatusSum < response.body.total_tasks
    /\ C4_PrioritySum < response.body.total_tasks

\* C5: completion_rate is completed_tasks / total_tasks * 100 rounded to two
\* decimals (within half a hundredth of the exact quotient) when
\* total_tasks > 0, is 0 when total_tasks = 0, and lies between 0 and 100.
C5_CompletionRate ==
    Succeeded("stats") =>
        LET rate == response.body.completion_rate
            completed == response.body.completed_tasks
            total == response.body.total_tasks
        IN  /\ rate \in 0..10000
            /\ total = 0 => rate = 0
            /\ total > 0 => 2 * Abs(rate * total - completed * 10000) <= total

C5_Witness ==
    /\ Succeeded("stats")
    /\ response.body.total_tasks = 3
    /\ response.body.completed_tasks = 2
    /\ response.body.completion_rate = 6667

\* C6: for an empty fetched list the Statistics result is the all-zero
\* result with the six distribution keys, the same as the tally of the
\* empty list; every Statistics result has the six keys.
C6_AllZero ==
    [ success |-> TRUE,
      user_id |-> user_id,
      total_tasks |-> 0,
      completed_tasks |-> 0,
      pending_tasks |-> 0,
      in_progress_tasks |-> 0,
      completion_rate |-> 0,
      priority_distribution |-> [k \in {"Low", "Medium", "High"} |-> 0],
      status_distribution |-> [k \in {"Todo", "In Progress", "Completed"} |-> 0] ]

C6_EmptyShape ==
    Succeeded("stats") =>
        /\ DOMAIN response.body.priority_distribution = {"Low", "Medium", "High"}
        /\ DOMAIN response.body.status_distribution =
              {"Todo", "In Progress", "Completed"}
        /\ tasks = <<>> =>
              /\ response.body = C6_AllZero
              /\ response.body = Tally(user_id, <<>>)

C6_Witness ==
    /\ Succeeded("stats")
    /\ tasks = <<>>
    /\ response.body.total_tasks = 0

\* C7: daily_completion_trend is strictly ascending by date string, every
\* count is at least 1, and its dates are exactly the creation dates of the
\* Completed records fetched.
C7_TrendSorted ==
    Succeeded("prod") =>
        LET trend == response.body.daily_completion_trend
        IN  /\ \A i \in 1..(Len(trend) - 1) : StrLess(trend[i].date, trend[i + 1].date)
            /\ \A i \in IndexSet(trend) : trend[i].count >= 1
            /\ {trend[i].date : i \in IndexSet(trend)} =
                  { DateKey(tasks[j].createdAt) :
                      j \in {k \in IndexSet(tasks) :
                                /\ tasks[k].status = "Completed"
                                /\ tasks[k].createdAt \in Time} }

C7_Witness ==
    /\ Succeeded("prod")
    /\ Len(tasks) >= 2
    /\ tasks[1].status = "Completed"
    /\ tasks[2].status = "Completed"
    /\ DateKey(tasks[1].createdAt) = <<1, 0>>
    /\ DateKey(tasks[2].createdAt) = <<0, 9>>
    /\ Len(response.body.daily_completion_trend) = 2

\* C8 as stated: every productivity request with a well-formed identifier
\* and days <= 0 succeeds with both averages 0.
C8_Original ==
    (Done("prod") /\ ObjectIdAccepts(user_id) /\ days <= 0) =>
        /\ response.code = 200
        /\ response.body.avg_tasks_per_day = 0
        /\ response.body.avg_completions_per_day = 0

\* C8 amended: no productivity request ends with a division error; a
\* request with days <= 0 succeeds unless a later step raises (window start
\* not representable, fetch raises, malformed due value), and then both
\* averages are 0; for days > 0 the averages of a result are
\* total_tasks_created / days and total_tasks_completed / days rounded to
\* two decimals.
C8_Averages ==
    /\ exc # ZeroDivision
    /\ (Done("prod") /\ ObjectIdAccepts(user_id) /\ days <= 0
        /\ ~WindowOverflows /\ exc \notin StoreErrors /\ ~SomeDueMalformed) =>
          response.code = 200
    /\ Succeeded("prod") =>
          LET b == response.body
          IN  /\ b.period_days = days
              /\ days <= 0 =>
                    b.avg_tasks_per_day = 0 /\ b.avg_completions_per_day = 0
              /\ days > 0 =>
                    /\ 2 * Abs(b.avg_tasks_per_day * days
                               - b.total_tasks_created * 100) <= days
                    /\ 2 * Abs(b.avg_completions_per_day * days
                               - b.total_tasks_completed * 100) <= days

C8_Witness ==
    /\ Succeeded("prod")
    /\ days = 0
    /\ response.body.total_tasks_created >= 1
    /\ response.body.avg_tasks_per_day = 0

\* C9: overdue_tasks is the number of fetched records that are not
\* Completed, have a due timestamp, and whose due timestamp is strictly
\* before the clock reading made for them; every fetched record lies in the
\* window.
C9_Overdue ==
    Succeeded("prod") =>
        /\ Len(dueNow) = Len(tasks)
        /\ \A i \in IndexSet(tasks) :
              /\ end_date <= dueNow[i]
              /\ dueNow[i] <= clock
              /\ start_date <= tasks[i].createdAt
              /\ tasks[i].createdAt <= end_date
        /\ response.body.overdue_tasks =
              Cardinality({ i \in IndexSet(tasks) :
                              /\ tasks[i].status # "Completed"
                              /\ tasks[i].dueDate \in Time
                              /\ tasks[i].dueDate < dueNow[i] })

C9_Witness ==
    /\ Succeeded("prod")
    /\ Len(tasks) = 2
    /\ response.body.overdue_tasks = 1
    /\ tasks[1].status = "Todo"
    /\ tasks[1].dueDate = dueNow[1]
    /\ tasks[2].status = "Todo"
    /\ tasks[2].dueDate < dueNow[2]

\* C10: when every fetched record has a creation timestamp, the trend counts
\* add up to total_tasks_completed, total_tasks_completed is at most
\* total_tasks_created, and productivity_score is their ratio times 100
\* rounded to two decimals (0 when nothing was created), between 0 and 100.
RECURSIVE C10_SumCounts(_)
C10_SumCounts(trend) ==
    IF trend = <<>> THEN 0 ELSE Head(trend).count + C10_SumCounts(Tail(trend))

C10_TrendTotals ==
    (Succeeded("prod") /\ \A i \in IndexSet(tasks) : tasks[i].createdAt \in Time) =>
        LET b == response.body
            score == b.productivity_score
        IN  /\ b.total_tasks_created = Len(tasks)
            /\ b.total_tasks_completed =
                  Cardinality({i \in IndexSet(tasks) : tasks[i].status = "Completed"})
            /\ C10_SumCounts(b.daily_completion_trend) = b.total_tasks_completed
            /\ b.total_tasks_completed <= b.total_tasks_created
            /\ score \in 0..10000
            /\ b.total_tasks_created = 0 => score = 0
            /\ b.total_tasks_created > 0 =>
                  2 * Abs(score * b.total_tasks_created
                          - b.total_tasks_completed * 10000) <= b.total_tasks_created

C10_Witness ==
    /\ Succeeded("prod")
    /\ response.body.total_tasks_created = 3
    /\ response.body.productivity_score = 6667
    /\ Len(response.body.daily_completion_trend) = 1
    /\ response.body.daily_completion_trend[1].count = 2

TypeOK ==
    /\ pc \in {"idle", "validate", "window", "fetch", "reduce", "done"}
    /\ fetches \in 0..1
    /\ clock \in ClockStart..ClockEnd

=============================================================================
